---- MODULE Spec2Model ----
(***************************************************************************)
(* Model of assemble/_pixabay/_video.py: a linear batch job that, for each *)
(* configured segment, searches Pixabay, downloads the top hit unless the  *)
(* asset file is already on disk, trims/resizes the clip, then             *)
(* concatenates, optionally mixes audio, and exports final_video.mp4.      *)
(* The script is run repeatedly against the same working directory, so the *)
(* assets directory persists from one run to the next.                     *)
(***************************************************************************)
EXTENDS Integers, Sequences, FiniteSets, TLC

VARIABLES
    prev,       \* how the previous invocation ended: "none", "done", "failed"
    pc,         \* position of the current invocation
    err,        \* the error that ended the current invocation, "none" if none
    i,          \* index into SEGMENTS of the loop at line 72
    assetsDir,  \* whether the directory assets/ exists
    disk,       \* content of assets/<fname>, per file name
    API_KEY,    \* module global set at line 41
    resp,       \* the search response last received (line 47)
    url,        \* value returned by px_search_video (line 75)
    clips,      \* list built at lines 71-81
    video,      \* timeline built at lines 83 and 100
    music,      \* result of Path("music.mp3").exists() at line 89
    vo,         \* result of Path("vo.wav").exists() at line 92
    out,        \* content of final_video.mp4
    log         \* side effects of the current invocation, in order

vars == <<prev, pc, err, i, assetsDir, disk, API_KEY, resp, url, clips,
          video, music, vo, out, log>>

---------------------------------------------------------------------------
(* Bounds of the model *)

\* how many of the configured segments are used (a prefix of SEGMENTS)
NumSegments == 2
\* longest string typed at the prompt or held in the environment variable
MaxKeyLen == 1
\* most hits in one search response
MaxHits == 2
\* most chunks in one download body
MaxChunks == 1

---------------------------------------------------------------------------
(* Configuration, lines 25-33 *)

ALL_SEGMENTS ==
    << [query |-> "sunrise timelapse",       dur |-> 5,  fname |-> "sunrise.mp4"],
       [query |-> "diverse friends smiling", dur |-> 5,  fname |-> "friends.mp4"],
       [query |-> "bible pages turning",     dur |-> 10, fname |-> "bible.mp4"],
       [query |-> "family hug reunion",      dur |-> 10, fname |-> "family.mp4"],
       [query |-> "people dancing field",    dur |-> 10, fname |-> "dancing.mp4"],
       [query |-> "worship church crowd",    dur |-> 10, fname |-> "worship.mp4"],
       [query |-> "cross silhouette sunset", dur |-> 10, fname |-> "cross.mp4"] >>

Min(a, b) == IF a < b THEN a ELSE b

SEGMENTS == SubSeq(ALL_SEGMENTS, 1, Min(NumSegments, Len(ALL_SEGMENTS)))

N == Len(SEGMENTS)

FileNames == { SEGMENTS[k].fname : k \in 1..N }

PER_PAGE == 3
TARGET_HEIGHT == 1920
TARGET_WIDTH == 1080
FPS == 30
MUSIC_GAIN == 25      \* 0.25, in hundredths
VO_GAIN == 100        \* 1.0, in hundredths
FADEOUT == 1

---------------------------------------------------------------------------
(* Values *)

\* Python values the script tests for truth or indexes: None, str, list, dict
PyNone == [t |-> "none"]
PyStr(s) == [t |-> "str", s |-> s]
PyList(xs) == [t |-> "list", items |-> xs]
PyDict(u) == [t |-> "dict", url |-> u]

\* Strings of the key are sequences over a two-letter alphabet:
\* a visible character and a blank.
Chars == {"k", " "}

RECURSIVE StringsUpTo(_)
StringsUpTo(n) ==
    IF n = 0 THEN { <<>> }
    ELSE LET S == StringsUpTo(n - 1)
         IN  S \cup { Append(s, c) : s \in { t \in S : Len(t) = n - 1 }, c \in Chars }

Strings == StringsUpTo(MaxKeyLen)

\* str.strip(): drop leading and trailing whitespace
RECURSIVE lstrip(_)
lstrip(s) == IF s # <<>> /\ Head(s) = " " THEN lstrip(Tail(s)) ELSE s

RECURSIVE rstrip(_)
rstrip(s) ==
    IF s # <<>> /\ s[Len(s)] = " " THEN rstrip(SubSeq(s, 1, Len(s) - 1)) ELSE s

strip(s) == rstrip(lstrip(s))

\* Python truthiness: None, "" and [] are false; a dict with a key is true
Truthy(v) ==
    CASE v.t = "none" -> FALSE
      [] v.t = "str"  -> v.s # <<>>
      [] v.t = "list" -> v.items # <<>>
      [] v.t = "dict" -> TRUE

\* Python's `a or b`
Or(a, b) == IF Truthy(a) THEN a ELSE b

\* os.getenv("PIXABAY_KEY"): None when unset, else the string (possibly empty)
EnvValues == { PyNone } \cup { PyStr(s) : s \in Strings }

\* URLs of a response are told apart by the hit they belong to and the tier
Tiers == {"large", "medium"}
Url(h, tier) == [hit |-> h, tier |-> tier]
NoUrl == [hit |-> 0, tier |-> "none"]

\* hits[h]["videos"]: each rendition is null or a dict holding a url
Videos(h) ==
    { [large |-> l, medium |-> m] :
        l \in { PyNone, PyDict(Url(h, "large")) },
        m \in { PyNone, PyDict(Url(h, "medium")) } }

RECURSIVE HitLists(_)
HitLists(n) ==
    IF n = 0 THEN { <<>> }
    ELSE LET S == HitLists(n - 1)
         IN  S \cup { Append(hs, v) : hs \in { x \in S : Len(x) = n - 1 },
                                      v \in Videos(n) }

\* data.get("hits"): None when the key is absent, else a list of at most
\* per_page hits
HitsValues == { PyNone } \cup { PyList(hs) : hs \in HitLists(Min(MaxHits, PER_PAGE)) }

NoResp == [status |-> "none", hits |-> PyNone]

\* a file of assets/: absent, or who wrote it and whether it holds the whole
\* body or only a part of it
Absent == [exists |-> FALSE, by |-> "nobody", whole |-> FALSE]
\* a file put there by something other than download()
Preexisting == [exists |-> TRUE, by |-> "other", whole |-> TRUE]
\* the file after lines 62-66 wrote k of the n chunks of the body
Written(k, n) == [exists |-> TRUE, by |-> "download", whole |-> (k = n)]

NoAudio == [kind |-> "none", tracks |-> <<>>, fadeout |-> 0]
NoVideo == [clips |-> <<>>, audio |-> NoAudio]
NoOut == [exists |-> FALSE, complete |-> FALSE]

Event(op, seg) == [op |-> op, seg |-> seg]

---------------------------------------------------------------------------
(* Initial state: before the first invocation.  assets/ may be left over   *)
(* from earlier use and may hold any of the configured files.              *)

Init ==
    /\ prev = "none"
    /\ pc = "start"
    /\ err = "none"
    /\ i = 1
    /\ assetsDir \in BOOLEAN
    /\ disk \in [FileNames -> {Absent, Preexisting}]
    /\ (~assetsDir => \A f \in FileNames : disk[f] = Absent)
    /\ API_KEY = PyNone
    /\ resp = NoResp
    /\ url = NoUrl
    /\ clips = <<>>
    /\ video = NoVideo
    /\ music = FALSE
    /\ vo = FALSE
    /\ out = NoOut
    /\ log = <<>>

\* a slip: the exception swallowed and the statement left to run again
RaiseAndRetry(e) == pc' = pc /\ err' = e

\* an uncaught exception: the interpreter prints the traceback and exits
Raise(e) == pc' = "failed" /\ err' = e

---------------------------------------------------------------------------
(* Lines 36 and 41: create assets/ if absent, resolve the API key *)

\* os.getenv("PIXABAY_KEY") or input(...).strip()
ResolveKey(env, typed) == Or(env, PyStr(strip(typed)))

Start ==
    /\ pc = "start"
    /\ assetsDir' = TRUE
    /\ \E env \in EnvValues :
         \/ /\ Truthy(env)                       \* input() is not evaluated
            /\ API_KEY' = ResolveKey(env, <<>>)
            /\ pc' = "search"
            /\ UNCHANGED <<err, log>>
         \/ /\ ~Truthy(env)
            /\ \E typed \in Strings :
                 /\ API_KEY' = ResolveKey(env, typed)
                 /\ pc' = "search"
                 /\ log' = Append(log, Event("prompt", 0))
                 /\ UNCHANGED err
         \/ /\ ~Truthy(env)                      \* input() raises EOFError
            /\ log' = Append(log, Event("prompt", 0))
            /\ Raise("EOFError")
            /\ UNCHANGED API_KEY
    /\ UNCHANGED <<prev, i, disk, resp, url, clips, video, music, vo, out>>

---------------------------------------------------------------------------
(* Lines 44-54: px_search_video *)

\* a slip: the tiers tried in the other order
BestMediumFirst(hits) == Or(hits.items[1].medium, hits.items[1].large)

\* line 53: hits[0]["videos"]["large"] or hits[0]["videos"]["medium"]
Best(hits) == Or(hits.items[1].large, hits.items[1].medium)

SearchStatuses == {"neterr", "httperr", "badjson", "ok"}

\* a slip: the test for an empty result left out, so that hits[0] fails
px_search_video_unchecked(r) ==
    CASE r.status = "neterr"  -> [err |-> "ConnectionError", url |-> NoUrl]
      [] r.status = "httperr" -> [err |-> "HTTPError", url |-> NoUrl]
      [] r.status = "badjson" -> [err |-> "JSONDecodeError", url |-> NoUrl]
      [] r.status = "ok" ->
           IF r.hits.t = "none" THEN [err |-> "TypeError", url |-> NoUrl]
           ELSE IF r.hits.items = <<>> THEN [err |-> "IndexError", url |-> NoUrl]
           ELSE IF Best(r.hits).t = "none"
                THEN [err |-> "TypeError", url |-> NoUrl]
                ELSE [err |-> "none", url |-> Best(r.hits).url]

\* The outcome of px_search_video on a response: the error raised, or "none"
\* and the URL returned.
px_search_video(r) ==
    CASE r.status = "neterr"  -> [err |-> "ConnectionError", url |-> NoUrl]  \* line 47
      [] r.status = "httperr" -> [err |-> "HTTPError", url |-> NoUrl]        \* line 48
      [] r.status = "badjson" -> [err |-> "JSONDecodeError", url |-> NoUrl]  \* line 49
      [] r.status = "ok" ->
           IF ~Truthy(r.hits)                                               \* line 51
           THEN [err |-> "NoResults", url |-> NoUrl]                         \* line 52
           ELSE IF Best(r.hits).t = "none"            \* None["url"], line 54
                THEN [err |-> "TypeError", url |-> NoUrl]
                ELSE [err |-> "none", url |-> Best(r.hits).url]

Responses ==
    { [status |-> st, hits |-> PyNone] : st \in SearchStatuses \ {"ok"} }
    \cup { [status |-> "ok", hits |-> h] : h \in HitsValues }

\* line 75: url = px_search_video(query), one request per call
CallSearch ==
    /\ log' = Append(log, Event("search", i))
    /\ \E r \in Responses :
         LET res == px_search_video(r) IN
         /\ resp' = r
         /\ url' = res.url
         /\ IF res.err = "none"
            THEN pc' = "download" /\ UNCHANGED err
            ELSE Raise(res.err)
    /\ UNCHANGED <<prev, i, assetsDir, disk, API_KEY, clips, video, music,
                   vo, out>>

\* a slip: the search made only for a file that is not on disk yet
SearchUnlessCached ==
    /\ pc = "search"
    /\ IF disk[SEGMENTS[i].fname].exists
       THEN /\ pc' = "download"
            /\ UNCHANGED <<prev, err, i, assetsDir, disk, API_KEY, resp, url,
                           clips, video, music, vo, out, log>>
       ELSE CallSearch

\* Lines 72-75: the head of the loop body, whatever is on disk
Search ==
    /\ pc = "search"
    /\ CallSearch

---------------------------------------------------------------------------
(* Lines 56-66: download *)

\* What a download request ends in.  Before the file is opened: no response
\* (line 59), an error status (line 60), an unparsable content-length
\* (line 61), open() failing (line 62).  After it: a body of n chunks of which
\* k were written when the stream ended or broke (lines 65-66).
DownloadOutcomes ==
    { [kind |-> kd, got |-> 0, len |-> 0] :
        kd \in {"neterr", "httperr", "badlen", "openerr"} }
    \cup { [kind |-> "stream", got |-> k, len |-> n] :
             n \in 0..MaxChunks, k \in 0..MaxChunks }

DownloadError(o) ==
    CASE o.kind = "neterr"  -> "ConnectionError"
      [] o.kind = "httperr" -> "HTTPError"
      [] o.kind = "badlen"  -> "ValueError"
      [] o.kind = "openerr" -> "OSError"
      [] o.kind = "stream"  -> IF o.got < o.len THEN "ChunkedEncodingError"
                               ELSE "none"

\* a slip: the existence test left out
CachedNever(fp) == FALSE

\* a slip: the existence test inverted
CachedInverted(fp) == ~disk[fp].exists

\* line 58: if dst.exists(): return
Cached(fp) == disk[fp].exists

\* a slip: the file opened before the status is checked
DiskAfterOpenFirst(o, fp) ==
    IF o.kind = "stream"
    THEN [disk EXCEPT ![fp] = Written(o.got, o.len)]
    ELSE IF o.kind = "httperr"
         THEN [disk EXCEPT ![fp] = Written(0, 1)]
         ELSE disk

\* lines 59-66: the file system after a request that ended in o; the file is
\* opened (and so created or emptied) only once status and length are read
DiskAfter(o, fp) ==
    IF o.kind = "stream"
    THEN [disk EXCEPT ![fp] = Written(o.got, o.len)]
    ELSE disk

\* line 76: download(url, fp)
Download ==
    /\ pc = "download"
    /\ LET fp == SEGMENTS[i].fname IN
       IF Cached(fp)
       THEN /\ pc' = "process"
            /\ UNCHANGED <<disk, log, err>>
       ELSE /\ log' = Append(log, Event("download", i))
            /\ \E o \in { x \in DownloadOutcomes : x.got <= x.len } :
                 /\ disk' = DiskAfter(o, fp)
                 /\ IF DownloadError(o) = "none"
                    THEN pc' = "process" /\ UNCHANGED err
                    ELSE Raise(DownloadError(o))
    /\ resp' = NoResp
    /\ UNCHANGED <<prev, i, assetsDir, API_KEY, url, clips, video, music,
                   vo, out>>

---------------------------------------------------------------------------
(* Lines 78-81: load, trim, resize, set the frame rate, append *)

\* source sizes (w, h): portrait, square, landscape
Dims == { <<1, 2>>, <<1, 1>>, <<2, 1>> }

\* line 80
Resize(w, h) ==
    IF w < h THEN [dim |-> "height", px |-> TARGET_HEIGHT]
    ELSE [dim |-> "width", px |-> TARGET_WIDTH]

\* the clip appended at line 81 for segment k, from a source of size (w, h)
\* that carries sound or not
Clip(k, w, h, sound) ==
    [file |-> SEGMENTS[k].fname, start |-> 0, end |-> SEGMENTS[k].dur,
     resize |-> Resize(w, h), fps |-> FPS, audio |-> sound]

\* lines 72 and 83: the next iteration, or the statement after the loop
AfterIteration(k) == IF k < N THEN "search" ELSE "concat"

\* a slip: the clip put at the front of the list
PrependClip(cs, c) == << c >> \o cs

\* line 81: clips.append(...)
AppendClip(cs, c) == Append(cs, c)

Process ==
    /\ pc = "process"
    /\ log' = Append(log, Event("load", i))
    /\ \/ /\ Raise("MediaError")       \* missing, unreadable or too short
          /\ UNCHANGED <<i, clips>>
       \/ /\ disk[SEGMENTS[i].fname].exists
          /\ \E d \in Dims, sound \in BOOLEAN :
               clips' = AppendClip(clips, Clip(i, d[1], d[2], sound))
          /\ pc' = AfterIteration(i)
          /\ i' = IF i < N THEN i + 1 ELSE i
          /\ UNCHANGED err
    /\ UNCHANGED <<prev, assetsDir, disk, API_KEY, resp, url, video, music,
                   vo, out>>

---------------------------------------------------------------------------
(* Line 83: concatenate_videoclips(clips, method="compose") *)

\* the sound the clips themselves carry, laid end to end by the library
ClipsAudio == [kind |-> "clips", tracks |-> <<>>, fadeout |-> 0]

concatenate_videoclips(cs) ==
    [clips |-> cs,
     audio |-> IF \E k \in 1..Len(cs) : cs[k].audio THEN ClipsAudio ELSE NoAudio]

Concat ==
    /\ pc = "concat"
    /\ video' = concatenate_videoclips(clips)
    /\ log' = Append(log, Event("concat", 0))
    /\ pc' = "audio"
    /\ UNCHANGED <<prev, err, i, assetsDir, disk, API_KEY, resp, url, clips,
                   music, vo, out>>

---------------------------------------------------------------------------
(* Lines 88-100: optional audio *)

Track(file, gain) == [file |-> file, gain |-> gain]

\* lines 88-93: the list audios, given which of the two files exist
Audios(m, v) ==
    (IF m THEN << Track("music.mp3", MUSIC_GAIN) >> ELSE <<>>)
    \o (IF v THEN << Track("vo.wav", VO_GAIN) >> ELSE <<>>)

\* a slip: the track attached only when both files are there
MixNeedsBoth(vid, audios) ==
    IF Len(audios) = 2
    THEN [vid EXCEPT !.audio = [kind |-> "mix", tracks |-> audios,
                                fadeout |-> FADEOUT]]
    ELSE vid

\* lines 95-100: the timeline after the mixing stage
Mix(vid, audios) ==
    IF audios # <<>>
    THEN [vid EXCEPT !.audio = [kind |-> "mix", tracks |-> audios,
                                fadeout |-> FADEOUT]]
    ELSE vid

Audio ==
    /\ pc = "audio"
    /\ \E m \in BOOLEAN, v \in BOOLEAN :
         /\ music' = m
         /\ vo' = v
         /\ \/ /\ m \/ v                 \* AudioFileClip fails on a file
               /\ Raise("MediaError")
               /\ UNCHANGED video
            \/ /\ video' = Mix(video, Audios(m, v))
               /\ pc' = "export"
               /\ UNCHANGED err
    /\ log' = Append(log, Event("mix", 0))
    /\ UNCHANGED <<prev, i, assetsDir, disk, API_KEY, resp, url, clips, out>>

---------------------------------------------------------------------------
(* Lines 105-115: export and the completion message *)

\* final_video.mp4 after write_videofile ran to the end, or broke off
Exported(whole) == [exists |-> TRUE, complete |-> whole]

Export ==
    /\ pc = "export"
    /\ \/ /\ out' = Exported(TRUE)
          /\ log' = log \o << Event("export", 0), Event("print_done", 0) >>
          /\ pc' = "done"
          /\ UNCHANGED err
       \/ /\ out' \in { out, Exported(FALSE) }   \* no cleanup
          /\ log' = Append(log, Event("export", 0))
          /\ Raise("EncodeError")
    /\ UNCHANGED <<prev, i, assetsDir, disk, API_KEY, resp, url, clips,
                   video, music, vo>>

---------------------------------------------------------------------------
(* Line 10: the script is invoked again in the same working directory *)

Rerun ==
    /\ pc \in {"done", "failed"}
    /\ prev' = pc
    /\ pc' = "start"
    /\ err' = "none"
    /\ i' = 1
    /\ API_KEY' = PyNone
    /\ resp' = NoResp
    /\ url' = NoUrl
    /\ clips' = <<>>
    /\ video' = NoVideo
    /\ music' = FALSE
    /\ vo' = FALSE
    /\ log' = <<>>
    /\ UNCHANGED <<assetsDir, disk, out>>

\* the steps of one invocation
Step == Start \/ Search \/ Download \/ Process \/ Concat \/ Audio \/ Export

Next == Step \/ Rerun

Spec == Init /\ [][Next]_vars

---------------------------------------------------------------------------
(* Reading the log *)

Count(op, seg) == Cardinality({ j \in 1..Len(log) : log[j] = Event(op, seg) })

Happened(op) == \E j \in 1..Len(log) : log[j].op = op

\* the segments of the events of one kind, in the order they happened
RECURSIVE SegsOf(_, _)
SegsOf(op, l) ==
    IF l = <<>> THEN <<>>
    ELSE IF Head(l).op = op THEN << Head(l).seg >> \o SegsOf(op, Tail(l))
         ELSE SegsOf(op, Tail(l))

LastEvent == IF log = <<>> THEN Event("nothing", 0) ELSE log[Len(log)]

AllCached == \A f \in FileNames : disk[f].exists

\* how far the invocation has got in program order
Rank ==
    CASE pc = "start"    -> 0
      [] pc = "search"   -> 3 * (i - 1) + 1
      [] pc = "download" -> 3 * (i - 1) + 2
      [] pc = "process"  -> 3 * (i - 1) + 3
      [] pc = "concat"   -> 3 * N + 1
      [] pc = "audio"    -> 3 * N + 2
      [] pc = "export"   -> 3 * N + 3
      [] pc \in {"done", "failed"} -> 3 * N + 4

---------------------------------------------------------------------------
(* Claims *)

\* C1: whenever download is called with the destination file already on
\* disk, it returns without issuing a request and without touching the file,
\* whatever the file holds.
C1_ExistingFileNotFetched ==
    [][ (pc = "download" /\ disk[SEGMENTS[i].fname].exists)
          => (log' = log /\ disk' = disk /\ pc' = "process") ]_vars

\* C1 witness: download returned for a file it did not write, no request made
C1_Witness ==
    /\ pc = "process"
    /\ disk[SEGMENTS[i].fname] = Preexisting
    /\ Count("download", i) = 0
    /\ Count("search", i) = 1

\* C2: whenever the sequencer has run, the timeline holds exactly one clip
\* per entry of SEGMENTS, the k-th clip cut from the k-th segment's file to
\* the k-th segment's duration.
C2_ClipsInConfigOrder ==
    (pc \in {"concat", "audio", "export", "done"} \/ Happened("concat"))
      => LET cs == IF pc = "concat" THEN clips ELSE video.clips IN
         /\ Len(cs) = N
         /\ \A k \in 1..N :
              /\ cs[k].file = SEGMENTS[k].fname
              /\ cs[k].start = 0
              /\ cs[k].end = SEGMENTS[k].dur

\* C2 witness: a finished run over segments of different file and duration
C2_Witness ==
    /\ pc = "done"
    /\ N >= 2
    /\ Len(video.clips) = N
    /\ video.clips[1].file # video.clips[N].file

\* C3: a search response with no hits (the list empty or absent) makes the
\* search raise the "no results" error; the run ends there: no download
\* request for that segment or a later one, no clip loaded for them, nothing
\* concatenated or exported, and no further step.
C3_NoHitsAborts ==
    /\ (resp.status = "ok" /\ (resp.hits = PyNone \/ resp.hits = PyList(<<>>)))
         => err = "NoResults"
    /\ err = "NoResults"
         => /\ pc = "failed"
            /\ LastEvent = Event("search", i)
            /\ \A k \in i..N : Count("download", k) = 0 /\ Count("load", k) = 0
            /\ ~Happened("concat") /\ ~Happened("export")
            /\ ~Happened("print_done")
            /\ ~ENABLED Step

\* C3 witness: the second segment's search comes back with an empty list
\* after the first segment was downloaded
C3_Witness ==
    /\ err = "NoResults"
    /\ resp.hits = PyList(<<>>)
    /\ i = 2
    /\ Count("download", 1) = 1

\* C4: the key the search client uses is never the empty string, whatever
\* the environment variable holds and whatever is typed at the prompt.
C4_KeyNonEmpty ==
    (pc # "start" /\ err # "EOFError")
      => (API_KEY.t = "str" /\ API_KEY.s # <<>>)

\* C5: whenever the search returns a URL, it is the first hit's: the large
\* rendition's when that is not null, otherwise the medium rendition's.
C5_FirstHitLargeElseMedium ==
    pc = "download"
      => LET first == resp.hits.items[1] IN
         /\ url.hit = 1
         /\ (first.large # PyNone => url = first.large.url)
         /\ (first.large = PyNone => url = first.medium.url)

\* C5 witness: large is null in the top hit while a lower hit has a large one
C5_Witness ==
    /\ pc = "download"
    /\ Len(resp.hits.items) >= 2
    /\ resp.hits.items[1].large = PyNone
    /\ resp.hits.items[2].large # PyNone
    /\ url = Url(1, "medium")

\* C6: every step moves the run strictly forward in program order; a failed
\* step ends the run (no step follows it, none is retried); a run stops only
\* as done or failed, never both; and the completion message is printed only
\* when every stage of every segment succeeded.
C6_FailureHalts ==
    /\ [][ Step => Rank' > Rank ]_vars
    /\ [] /\ (pc = "failed") = (err # "none")
          /\ (pc \in {"done", "failed"}) = (~ENABLED Step)
          /\ Happened("print_done")
               => /\ pc = "done"
                  /\ out = Exported(TRUE)
                  /\ Len(video.clips) = N
                  /\ \A k \in 1..N : Count("search", k) = 1 /\ Count("load", k) = 1
                  /\ Count("concat", 0) = 1 /\ Count("export", 0) = 1

\* C6 witness: a run that failed while downloading its second segment
C6_Witness ==
    /\ pc = "failed"
    /\ err = "HTTPError"
    /\ LastEvent = Event("download", 2)
    /\ Len(clips) = 1

\* C7: a run that follows a completed run, with assets/ as that run left
\* it, issues no download request for any segment.
C7_SecondRunNoDownloads ==
    prev = "done" => \A k \in 1..N : Count("download", k) = 0

\* C7 witness: the second of two completed runs, the first of which
\* downloaded a file
C7_Witness ==
    /\ prev = "done"
    /\ pc = "done"
    /\ \E f \in FileNames : disk[f].by = "download"

C9_TruncatedFileReused ==
    /\ (pc = "failed" /\ err = "HTTPError" /\ LastEvent = Event("download", i))
         => disk[SEGMENTS[i].fname] = Absent
    /\ (pc = "process" /\ ~disk[SEGMENTS[i].fname].whole)
         => /\ disk[SEGMENTS[i].fname].exists
            /\ Count("download", i) = 0
    /\ \A k \in 1..N :
         (Count("load", k) = 1 /\ disk[SEGMENTS[k].fname].exists
            /\ ~disk[SEGMENTS[k].fname].whole)
           => Count("download", k) = 0

\* C9 witness: the run after a download broke off mid-body loads the partial
\* file without requesting it again
C9_Witness ==
    /\ prev = "failed"
    /\ LastEvent = Event("load", 1)
    /\ disk[SEGMENTS[1].fname] = Written(0, 1)
    /\ Count("download", 1) = 0
    /\ Len(clips) = 1

\* C10: searches are issued in configuration order, one per iteration, and
\* a segment's search precedes its cache check: at the cache check the last
\* thing done is that segment's search, whether or not the file exists.  A
\* completed run made exactly one search request and at most one download
\* request per segment.  A failed or empty search fails the run even when
\* every asset is on disk.
C10_SearchAlwaysFirst ==
    /\ \E n \in 0..N : SegsOf("search", log) = [k \in 1..n |-> k]
    /\ pc = "download" => LastEvent = Event("search", i)
    /\ \A k \in 1..N : Count("download", k) + Count("load", k) > 0
                         => Count("search", k) = 1
    /\ pc = "done" => \A k \in 1..N : /\ Count("search", k) = 1
                                      /\ Count("download", k) <= 1
    /\ (resp.status \in {"neterr", "httperr", "badjson"}
          \/ (resp.status = "ok" /\ ~Truthy(resp.hits)))
         => pc = "failed"

\* C10 witness: after a completed run, with every asset cached, the second
\* segment's search returns no hits and the run fails
C10_Witness ==
    /\ prev = "done"
    /\ AllCached
    /\ pc = "failed"
    /\ err = "NoResults"
    /\ log = << Event("search", 1), Event("load", 1), Event("search", 2) >>

====
